---- MODULE Spec2Model ----
(***************************************************************************)
(* Model of GhgaPydanticGenerator (ghga_metadata_utils/generators/         *)
(* pydanticgen.py): the construction of the reference-slot set and the     *)
(* per-slot type-range resolution of serialize(), together with the        *)
(* registry of annotated unions it accumulates.                            *)
(*                                                                         *)
(* Python strings are TLA+ strings; type expressions are built by          *)
(* concatenation exactly as the f-strings of the source build them.        *)
(***************************************************************************)
EXTENDS Integers, Sequences, FiniteSets, TLC

VARIABLES
    schema,     \* the schema view the generators were constructed over
    gens,       \* generator instances: reference_slots, annotated_unions
    pc,         \* "idle" | "loop" | "rendered" | "raised"
    cur,        \* index of the generator instance running serialize()
    todo,       \* the iterations of the class and slot loops still to run
    pyschema,   \* attributes annotated so far by the running pass
    error,      \* message of the exception raised by the pass, or None
    outcomes    \* what each finished pass returned or left behind

vars == <<schema, gens, pc, cur, todo, pyschema, error, outcomes>>

\* Bound of the model: the number of serialize() passes run.
MaxPasses == 2

\* Python's None (no LinkML element name contains angle brackets).
None == "<None>"

-----------------------------------------------------------------------------
(* String helpers: str.startswith, the `in` operator on strings.           *)

StartsWith(s, p) == Len(s) >= Len(p) /\ SubSeq(s, 1, Len(p)) = p

Contains(hay, needle) ==
    \E i \in 1..(Len(hay) - Len(needle) + 1) :
        SubSeq(hay, i, i + Len(needle) - 1) = needle

Upper(c) ==
    CASE c = "a" -> "A" [] c = "b" -> "B" [] c = "c" -> "C" [] c = "d" -> "D"
      [] c = "e" -> "E" [] c = "f" -> "F" [] c = "g" -> "G" [] c = "h" -> "H"
      [] c = "i" -> "I" [] c = "j" -> "J" [] c = "k" -> "K" [] c = "l" -> "L"
      [] c = "m" -> "M" [] c = "n" -> "N" [] c = "o" -> "O" [] c = "p" -> "P"
      [] c = "q" -> "Q" [] c = "r" -> "R" [] c = "s" -> "S" [] c = "t" -> "T"
      [] c = "u" -> "U" [] c = "v" -> "V" [] c = "w" -> "W" [] c = "x" -> "X"
      [] c = "y" -> "Y" [] c = "z" -> "Z" [] OTHER -> c

\* linkml_runtime.utils.formatutils.camelcase: underscores become blanks,
\* the text is split at blanks, each word gets its first letter upper-cased,
\* and the words are joined without separator.
RECURSIVE CamelFrom(_, _, _)
CamelFrom(txt, i, startOfWord) ==
    IF i > Len(txt) THEN ""
    ELSE LET c == SubSeq(txt, i, i) IN
         IF c = " " \/ c = "_" THEN CamelFrom(txt, i + 1, TRUE)
         ELSE (IF startOfWord THEN Upper(c) ELSE c) \o CamelFrom(txt, i + 1, FALSE)

camelcase(txt) == CamelFrom(txt, 1, TRUE)

\* linkml_runtime.utils.formatutils.underscore: every run of blanks becomes
\* one underscore (element names carry no leading or trailing blanks).
RECURSIVE UnderFrom(_, _, _)
UnderFrom(txt, i, inBlank) ==
    IF i > Len(txt) THEN ""
    ELSE LET c == SubSeq(txt, i, i) IN
         IF c = " " THEN (IF inBlank THEN "" ELSE "_") \o UnderFrom(txt, i + 1, TRUE)
         ELSE c \o UnderFrom(txt, i + 1, FALSE)

underscore(txt) == UnderFrom(txt, 1, FALSE)

\* ",".join(list)
RECURSIVE Join(_)
Join(list) ==
    IF Len(list) = 0 THEN ""
    ELSE IF Len(list) = 1 THEN list[1]
    ELSE list[1] \o "," \o Join(Tail(list))

\* reversed(list)
Reversed(list) == [i \in 1..Len(list) |-> list[Len(list) + 1 - i]]

Range(seq) == {seq[i] : i \in 1..Len(seq)}

-----------------------------------------------------------------------------
(* The schema view: classes with their induced slots, enums and types.     *)
(* Everything but one slot is fixed; that slot ranges over every           *)
(* combination of name, range and flags, and a subclass inherits it with   *)
(* `required` overridden.                                                  *)

Slot(name, alias, range, multivalued, required, inlined, ial, identifier) ==
    [name |-> name, alias |-> alias, range |-> range,
     multivalued |-> multivalued, required |-> required,
     inlined |-> inlined, inlined_as_list |-> ial, identifier |-> identifier]

Class(name, is_a, class_uri, slots) ==
    [name |-> name, is_a |-> is_a, class_uri |-> class_uri, slots |-> slots]

IdSlot == Slot("id", None, "string", FALSE, TRUE, FALSE, FALSE, TRUE)

AgentSlot == Slot("has agent", None, "agent", TRUE, FALSE, TRUE, FALSE, FALSE)

\* Slot names with their aliases.  "studies" is aliased "has study".
SlotNames ==
    { <<"schema type", None>>, <<"has study", None>>, <<"has attribute", None>>,
      <<"main contact", None>>, <<"title", None>>, <<"studies", "has study">> }

\* "undefined thing" names no element of the schema.
SlotRanges ==
    { "any value", "named thing", "study", "agent", "attribute",
      "status enum", "string", "boolean", None, "undefined thing" }

ProbeSlots ==
    { Slot(n[1], n[2], r, mv, rq, inl, ial, FALSE) :
        n \in SlotNames, r \in SlotRanges,
        mv \in BOOLEAN, rq \in BOOLEAN, inl \in BOOLEAN, ial \in BOOLEAN }

\* The slot as induced in the subclass, whose slot_usage overrides
\* `required`.
Induced(slot) == [slot EXCEPT !.required = ~slot.required]

\* Classes in declaration order (not topologically sorted).
Classes(probe) ==
    << Class("any value", None, "linkml:Any", <<>>),
       Class("data submission", "submission", None, <<Induced(probe)>>),
       Class("study", "named thing", None, <<IdSlot, AgentSlot>>),
       Class("named thing", None, None, <<IdSlot>>),
       Class("submission", None, None, <<probe>>),
       Class("organization", "agent", None, <<>>),
       Class("agent", None, None, <<>>),
       Class("person", "agent", None, <<>>),
       Class("attribute", None, None, <<>>) >>

Enums == { "status enum" }

\* TypeDefinition: base, repr, typeof.
Types ==
    [ string   |-> [base |-> "str",  repr |-> None,   typeof |-> None],
      integer  |-> [base |-> "int",  repr |-> None,   typeof |-> None],
      boolean  |-> [base |-> "Bool", repr |-> "bool", typeof |-> None],
      date     |-> [base |-> "XSDDate", repr |-> "str", typeof |-> None] ]

SchemaView(probe) ==
    [classes |-> Classes(probe), enums |-> Enums, types |-> Types]

Schemas == { SchemaView(p) : p \in ProbeSlots }

\* sv.all_classes(), sv.all_enums(), sv.all_types(): the names defined.
all_classes(sv) == { sv.classes[i].name : i \in 1..Len(sv.classes) }
all_enums(sv) == sv.enums
all_types(sv) == DOMAIN sv.types

\* sv.get_class(name)
get_class(sv, name) ==
    sv.classes[CHOOSE i \in 1..Len(sv.classes) : sv.classes[i].name = name]

\* sv.class_slots(name) with sv.induced_slot(sn, name) for each
class_slots(sv, name) == get_class(sv, name).slots

\* sv.get_identifier_slot(name): the first induced slot that is an
\* identifier, as a one-element sequence; <<>> stands for None.
get_identifier_slot(sv, name) ==
    LET slots == class_slots(sv, name)
        ids == { i \in 1..Len(slots) : slots[i].identifier }
    IN  IF ids = {} THEN <<>>
        ELSE <<slots[CHOOSE i \in ids : \A j \in ids : i <= j]>>

\* sv.class_children(name), in declaration order
class_children(sv, name) ==
    SelectSeq([i \in 1..Len(sv.classes) |-> sv.classes[i].name],
              LAMBDA c : get_class(sv, c).is_a = name)

\* sv.class_descendants(name): the reflexive closure, the class itself
\* first, children appended as they are met (depth-first stack).
RECURSIVE Closure(_, _, _, _)
Closure(sv, rv, visited, stack) ==
    IF Len(stack) = 0 THEN rv
    ELSE LET i == stack[Len(stack)]
             rest == SubSeq(stack, 1, Len(stack) - 1)
             vals == SelectSeq(class_children(sv, i),
                               LAMBDA v : v \notin (visited \cup {i}))
             newRv == SelectSeq(vals, LAMBDA v : v \notin Range(rv))
             newStack == SelectSeq(vals, LAMBDA v : v \notin Range(rest))
         IN  Closure(sv, rv \o newRv, visited \cup {i}, rest \o newStack)

class_descendants(sv, name) == Closure(sv, <<name>>, {}, <<name>>)

\* Generator.sort_classes: repeatedly take the first class whose parent is
\* already placed.
RECURSIVE SortFrom(_, _)
SortFrom(clist, slist) ==
    IF Len(clist) = 0 THEN slist
    ELSE LET placed == { slist[i].name : i \in 1..Len(slist) }
             ok == { i \in 1..Len(clist) :
                       clist[i].is_a = None \/ clist[i].is_a \in placed }
             k == CHOOSE i \in ok : \A j \in ok : i <= j
         IN  SortFrom(SubSeq(clist, 1, k - 1) \o SubSeq(clist, k + 1, Len(clist)),
                      Append(slist, clist[k]))

sort_classes(clist) == SortFrom(clist, <<>>)

\* sorted_classes of serialize(): sorted, without the linkml:Any classes.
sorted_classes(sv) ==
    SelectSeq(sort_classes(sv.classes), LAMBDA c : c.class_uri # "linkml:Any")

\* s = deepcopy(sv.induced_slot(sn, class_name)); s.name = underscore(s.name)
normalized(induced) == [induced EXCEPT !.name = underscore(induced.name)]

\* The nested loops `for class_original in sorted_classes` /
\* `for sn in sv.class_slots(class_name)` as one sequence of
\* <<class name, s>> iterations, s the slot with its name normalized.
RECURSIVE Iterations(_)
Iterations(classes) ==
    IF Len(classes) = 0 THEN <<>>
    ELSE [i \in 1..Len(classes[1].slots) |->
             <<classes[1].name, normalized(classes[1].slots[i])>>]
         \o Iterations(Tail(classes))

\* linkml.generators.pydanticgen._get_pyrange
RECURSIVE get_pyrange(_, _)
get_pyrange(t, sv) ==
    LET p0 == IF t.repr = None THEN t.base ELSE t.repr
        p1 == IF t.base = "XSDDateTime" THEN "datetime "
              ELSE IF t.base = "XSDDate" THEN "date" ELSE p0
    IN  IF p1 = None /\ t.typeof # None
        THEN get_pyrange(sv.types[t.typeof], sv)
        ELSE p1

-----------------------------------------------------------------------------
(* GhgaPydanticGenerator.__init__                                          *)

NON_REFERENCE_SLOTS == {"has attribute", "has parameter", "has data use condition"}

\* Generator.aliased_slot_name: the alias when there is one, else the name.
aliased_slot_name(slot) == IF slot.alias # None THEN slot.alias ELSE slot.name

\* self.schema.slots: the slot definitions of the schema.
schema_slots(sv) ==
    UNION { Range(sv.classes[i].slots) : i \in 1..Len(sv.classes) }

\* The condition under which __init__ adds a slot to reference_slots.
is_reference_alias(slot_alias_name) ==
    /\ StartsWith(slot_alias_name, "has ") \/ slot_alias_name = "main contact"
    /\ slot_alias_name \notin NON_REFERENCE_SLOTS

reference_slots(sv) ==
    { underscore(aliased_slot_name(slot)) :
        slot \in { x \in schema_slots(sv) : is_reference_alias(aliased_slot_name(x)) } }

\* The instance __init__ leaves behind.
Generator(sv) ==
    [reference_slots |-> reference_slots(sv), annotated_unions |-> <<>>]

-----------------------------------------------------------------------------
(* GhgaPydanticGenerator.serialize: the resolution of one slot             *)


\* Branch with the final `else: raise` replaced by the default of an absent
\* range.
Branch_silent(sv, s) ==
    IF s.name = "schema_type" THEN "schema_type"
    ELSE IF s.range \in all_classes(sv) THEN
        IF get_class(sv, s.range).class_uri = "linkml:Any" THEN "any"
        ELSE IF s.inlined \/ get_identifier_slot(sv, s.range) = <<>> THEN "inlined"
        ELSE "reference"
    ELSE IF s.range \in all_enums(sv) THEN "enum"
    ELSE IF s.range \in all_types(sv) THEN "type"
    ELSE "absent"

\* Branch with every class range embedded (the by-reference case lost).
Branch_no_reference(sv, s) ==
    IF s.name = "schema_type" THEN "schema_type"
    ELSE IF s.range \in all_classes(sv) THEN
        IF get_class(sv, s.range).class_uri = "linkml:Any" THEN "any"
        ELSE "inlined"
    ELSE IF s.range \in all_enums(sv) THEN "enum"
    ELSE IF s.range \in all_types(sv) THEN "type"
    ELSE IF s.range = None THEN "absent"
    ELSE "unresolvable"

\* The if/elif chain over the slot's name and range.
Branch(sv, s) ==
    IF s.name = "schema_type" THEN "schema_type"
    ELSE IF s.range \in all_classes(sv) THEN
        IF get_class(sv, s.range).class_uri = "linkml:Any" THEN "any"
        ELSE IF s.inlined \/ get_identifier_slot(sv, s.range) = <<>> THEN "inlined"
        ELSE "reference"
    ELSE IF s.range \in all_enums(sv) THEN "enum"
    ELSE IF s.range \in all_types(sv) THEN "type"
    ELSE IF s.range = None THEN "absent"
    ELSE "unresolvable"

\* pyrange of the schema_type slot
literal_pyrange(class_def_name) == "Literal[\"" \o class_def_name \o "\"]"

\* pyrange_list: the range's descendants, reversed, camel-cased
pyrange_list(descendants) ==
    LET r == Reversed(descendants) IN [i \in 1..Len(r) |-> camelcase(r[i])]

annotated_union_name(descendants) == camelcase("annotated " \o descendants[1])

annotated_union(name, list) ==
    [name |-> name, discriminator_field |-> "schema_type",
     members |-> [i \in 1..Len(list) |-> camelcase(list[i])]]

union_names(unions) == { unions[i].name : i \in 1..Len(unions) }

\* put_union without the `not in self.annotated_unions` test.
put_union_always(unions, descendants) ==
    LET list == pyrange_list(descendants)
        name == annotated_union_name(descendants)
    IN  IF Len(list) > 1
        THEN Append(unions, annotated_union(name, list))
        ELSE unions

\* put_union looking the definition up under the class name instead of the
\* union name.
put_union_stale_key(unions, descendants) ==
    LET list == pyrange_list(descendants)
        name == annotated_union_name(descendants)
    IN  IF Len(list) > 1 /\ descendants[1] \notin union_names(unions)
        THEN Append(unions, annotated_union(name, list))
        ELSE unions

\* put_union with `len(pyrange_list) > 0`.
put_union_any_length(unions, descendants) ==
    LET list == pyrange_list(descendants)
        name == annotated_union_name(descendants)
    IN  IF Len(list) > 0 /\ name \notin union_names(unions)
        THEN Append(unions, annotated_union(name, list))
        ELSE unions

\* self.annotated_unions after the inlined branch: a definition is added
\* under its name unless the name is already a key.
put_union(unions, descendants) ==
    LET list == pyrange_list(descendants)
        name == annotated_union_name(descendants)
    IN  IF Len(list) > 1 /\ name \notin union_names(unions)
        THEN Append(unions, annotated_union(name, list))
        ELSE unions

\* inlined_pyrange naming the union whatever the number of descendants.
inlined_pyrange_union_always(descendants) == annotated_union_name(descendants)

\* pyrange of the inlined branch
inlined_pyrange(descendants) ==
    LET list == pyrange_list(descendants)
    IN  IF Len(list) > 1 THEN annotated_union_name(descendants) ELSE Join(list)

\* The local collection_type the inlined branch assigns ("str"), or None
\* when it is left unassigned.  collection_key is not assigned there.
inlined_collection_type(sv, s) ==
    IF get_identifier_slot(sv, s.range) # <<>> /\ ~s.inlined_as_list
    THEN "str" ELSE None

\* collection_key: set to None before the chain and assigned nowhere else.
collection_key_of(sv, s) == None

\* pyrange as the if/elif chain leaves it (no value on the raise).
resolved_pyrange(sv, class_def_name, s) ==
    LET b == Branch(sv, s) IN
    CASE b = "schema_type" -> literal_pyrange(class_def_name)
      [] b = "any"         -> "Any"
      [] b = "inlined"     -> inlined_pyrange(class_descendants(sv, s.range))
      [] b = "reference"   -> "str"
      [] b = "enum"        -> camelcase(s.range)
      [] b = "type"        -> get_pyrange(sv.types[s.range], sv)
      [] b = "absent"      -> "str"

\* if s.multivalued: List[...] or Dict[collection_key, ...]
wrap_multivalued(s, pyrange, collection_key) ==
    IF s.multivalued
    THEN IF collection_key = None
         THEN "List[" \o pyrange \o "]"
         ELSE "Dict[" \o collection_key \o ", " \o pyrange \o "]"
    ELSE pyrange

\* widen without the multivalued case.
widen_scalar(refs, s, pyrange) ==
    IF s.name \in refs /\ ~Contains(pyrange, "[str]") /\ pyrange # "str"
    THEN "Union[" \o pyrange \o ", str]"
    ELSE pyrange

\* Making reference slots more permissible
widen(refs, s, pyrange) ==
    IF s.name \in refs /\ ~Contains(pyrange, "[str]") /\ pyrange # "str"
    THEN IF s.multivalued
         THEN "Union[" \o pyrange \o ", List[str]]"
         ELSE "Union[" \o pyrange \o ", str]"
    ELSE pyrange

\* wrap_optional without the schema_type exemption.
wrap_optional_all(s, pyrange) ==
    IF ~s.required THEN "Optional[" \o pyrange \o "]" ELSE pyrange

\* wrap_optional with the test on `required` inverted.
wrap_optional_inverted(s, pyrange) ==
    IF s.required /\ s.name # "schema_type"
    THEN "Optional[" \o pyrange \o "]"
    ELSE pyrange

\* if not s.required and s.name != "schema_type": Optional[...]
wrap_optional(s, pyrange) ==
    IF ~s.required /\ s.name # "schema_type"
    THEN "Optional[" \o pyrange \o "]"
    ELSE pyrange

\* The attribute of class_def with its python_range annotation, and the
\* values pyrange went through on the way.
attribute(sv, refs, class_def_name, s) ==
    LET resolved == resolved_pyrange(sv, class_def_name, s)
        wrapped  == wrap_multivalued(s, resolved, collection_key_of(sv, s))
        widened  == widen(refs, s, wrapped)
    IN  [cls |-> class_def_name, slot |-> s, resolved |-> resolved,
         wrapped |-> wrapped, widened |-> widened,
         python_range |-> wrap_optional(s, widened)]

\* The attribute of class_def when the chain raised: no annotation.
bare_attribute(class_def_name, s) ==
    [cls |-> class_def_name, slot |-> s, resolved |-> None,
     wrapped |-> None, widened |-> None, python_range |-> None]

-----------------------------------------------------------------------------
(* The state machine                                                       *)

\* The current iteration: the class, its generated name, the slot.
AtSlot == pc = "loop" /\ Len(todo) > 0
class_name == todo[1][1]
class_def_name == camelcase(class_name)
S == todo[1][2]

Outcome ==
    [gen |-> cur, pyschema |-> pyschema,
     annotated_unions |-> gens[cur].annotated_unions, error |-> error]

Init ==
    /\ schema \in Schemas
    /\ gens = <<Generator(schema)>>
    /\ pc = "idle"
    /\ cur = 0
    /\ todo = <<>>
    /\ pyschema = <<>>
    /\ error = None
    /\ outcomes = <<>>

\* serialize() up to the loops: a new pyschema, the classes sorted.
StartPass(g) ==
    /\ pc # "loop"
    /\ Len(outcomes) < MaxPasses
    /\ pc' = "loop"
    /\ cur' = g
    /\ todo' = Iterations(sorted_classes(schema))
    /\ pyschema' = <<>>
    /\ error' = None
    /\ UNCHANGED <<schema, outcomes>>

\* gen.serialize() on an instance constructed earlier.
serialize(g) == StartPass(g) /\ UNCHANGED gens

\* cli(): gen = GhgaPydanticGenerator(yamlfile, ...); gen.serialize()
cli ==
    /\ StartPass(Len(gens) + 1)
    /\ gens' = Append(gens, Generator(schema))

\* One iteration of the slot loop that ends with the annotation; the
\* registry changes in the inlined branch only.
Annotate(branch) ==
    /\ AtSlot
    /\ Branch(schema, S) = branch
    /\ pyschema' = Append(pyschema,
           attribute(schema, gens[cur].reference_slots, class_def_name, S))
    /\ todo' = Tail(todo)
    /\ UNCHANGED <<schema, pc, cur, error, outcomes>>

ResolveSchemaType == Annotate("schema_type") /\ UNCHANGED gens

ResolveAny == Annotate("any") /\ UNCHANGED gens

ResolveInlined ==
    /\ Annotate("inlined")
    /\ gens' = [gens EXCEPT ![cur].annotated_unions =
                   put_union(@, class_descendants(schema, S.range))]

ResolveReference == Annotate("reference") /\ UNCHANGED gens

ResolveEnum == Annotate("enum") /\ UNCHANGED gens

ResolveType == Annotate("type") /\ UNCHANGED gens

ResolveAbsent == Annotate("absent") /\ UNCHANGED gens

\* raise Exception(f"range: {s.range}"): the attribute is in class_def
\* without annotation, serialize() is left.
RaiseUnresolvable ==
    /\ AtSlot
    /\ Branch(schema, S) = "unresolvable"
    /\ pyschema' = Append(pyschema, bare_attribute(class_def_name, S))
    /\ error' = "range: " \o S.range
    /\ pc' = "raised"
    /\ outcomes' = Append(outcomes, [Outcome EXCEPT !.pyschema = pyschema',
                                                    !.error = error'])
    /\ UNCHANGED <<schema, gens, cur, todo>>

\* template_obj.render(schema=pyschema, annotated_unions=...); return code
Render ==
    /\ pc = "loop"
    /\ Len(todo) = 0
    /\ pc' = "rendered"
    /\ outcomes' = Append(outcomes, Outcome)
    /\ UNCHANGED <<schema, gens, cur, todo, pyschema, error>>

Next ==
    \/ \E g \in 1..Len(gens) : serialize(g)
    \/ cli
    \/ ResolveSchemaType
    \/ ResolveAny
    \/ ResolveInlined
    \/ ResolveReference
    \/ ResolveEnum
    \/ ResolveType
    \/ ResolveAbsent
    \/ RaiseUnresolvable
    \/ Render

Spec == Init /\ [][Next]_vars

-----------------------------------------------------------------------------
(* Vocabulary of the properties                                            *)

Registry == gens[cur].annotated_unions

Unresolvable(s) ==
    /\ s.range # None
    /\ s.range \notin (all_classes(schema) \cup all_enums(schema) \cup all_types(schema))

\* The range is a class other than the any-type class.
ClassRange(s) ==
    /\ s.name # "schema_type"
    /\ s.range \in all_classes(schema)
    /\ get_class(schema, s.range).class_uri # "linkml:Any"

HasIdentifier(s) == get_identifier_slot(schema, s.range) # <<>>

Embedded(s) == ClassRange(s) /\ (s.inlined \/ ~HasIdentifier(s))

ByReference(s) == ClassRange(s) /\ ~s.inlined /\ HasIdentifier(s)

NumDescendants(s) == Len(class_descendants(schema, s.range))

UnionNameOf(s) == "Annotated" \o camelcase(s.range)

Defs(unions, name) == { i \in 1..Len(unions) : unions[i].name = name }

IsPrefix(a, b) == Len(a) <= Len(b) /\ SubSeq(b, 1, Len(a)) = a

-----------------------------------------------------------------------------
\* C1 (as stated): every slot processed with a range that names no class,
\* enum or type and is not absent aborts the pass with an error carrying the
\* range and gets no type expression, the slot named schema_type included.
C1_AnyUnresolvableRangeAborts ==
    \A i \in 1..Len(pyschema) :
        Unresolvable(pyschema[i].slot) =>
            /\ pc = "raised"
            /\ i = Len(pyschema)
            /\ Contains(error, pyschema[i].slot.range)
            /\ pyschema[i].python_range = None

\* C1 (amended): the same for every slot not named schema_type; a slot
\* named schema_type with such a range is annotated and the pass goes on.
C1_UnresolvableRangeAborts ==
    /\ \A i \in 1..Len(pyschema) :
        (Unresolvable(pyschema[i].slot) /\ pyschema[i].slot.name # "schema_type") =>
            /\ pc = "raised"
            /\ i = Len(pyschema)
            /\ error = "range: " \o pyschema[i].slot.range
            /\ pyschema[i].python_range = None
    /\ \A i \in 1..Len(outcomes) :
        outcomes[i].error # None =>
            \E n \in DOMAIN outcomes[i].pyschema : LET a == outcomes[i].pyschema[n] IN
                Unresolvable(a.slot) /\ a.python_range = None

C1_Witness ==
    /\ pc = "raised"
    /\ error = "range: undefined thing"
    /\ Len(Registry) = 1
    /\ pyschema[Len(pyschema)].slot.name = "has_study"
    /\ pyschema[Len(pyschema)].python_range = None

\* C2 (as stated): the annotation of every schema_type slot is exactly
\* Literal["<generated name of the owning class>"], whatever its flags.
C2_SchemaTypeIsBareLiteral ==
    \A n \in DOMAIN pyschema : LET a == pyschema[n] IN
        a.slot.name = "schema_type" =>
            /\ a.cls \in {"Submission", "DataSubmission"}
            /\ a.python_range = "Literal[\"" \o a.cls \o "\"]"

\* C2 (amended): the annotation of a schema_type slot is the literal of the
\* owning class, wrapped as List[...] when the slot is multivalued; it is
\* never Optional and never widened with str, whatever the required flag
\* and the range.
C2_SchemaTypeLiteral ==
    \A n \in DOMAIN pyschema : LET a == pyschema[n] IN
        a.slot.name = "schema_type" =>
            /\ a.cls \in {"Submission", "DataSubmission"}
            /\ a.resolved = "Literal[\"" \o a.cls \o "\"]"
            /\ a.python_range =
                 IF a.slot.multivalued THEN "List[" \o a.resolved \o "]"
                 ELSE a.resolved

C2_Witness ==
    \E n \in DOMAIN pyschema : LET a == pyschema[n] IN
        /\ a.slot.name = "schema_type"
        /\ ~a.slot.required
        /\ ~a.slot.multivalued
        /\ a.slot.range = "named thing"
        /\ a.python_range = "Literal[\"DataSubmission\"]"

\* C3: once a slot whose range is an embedded class with at least two
\* descendants is resolved, the registry holds exactly one definition named
\* "Annotated" + camel-cased range, with discriminator schema_type and the
\* reversed descendants as members; no name is ever defined twice.
C3_OneUnionPerName ==
    /\ \A n \in DOMAIN pyschema : LET a == pyschema[n] IN
        (Embedded(a.slot) /\ NumDescendants(a.slot) >= 2) =>
            LET name == UnionNameOf(a.slot)
                descendants == class_descendants(schema, a.slot.range)
            IN  /\ a.resolved = name
                /\ Cardinality(Defs(Registry, name)) = 1
                /\ \A i \in Defs(Registry, name) :
                    /\ Registry[i].discriminator_field = "schema_type"
                    /\ Registry[i].members =
                         Reversed([k \in DOMAIN descendants |-> camelcase(descendants[k])])
    /\ \A g \in 1..Len(gens) :
        \A i, j \in 1..Len(gens[g].annotated_unions) :
            gens[g].annotated_unions[i].name = gens[g].annotated_unions[j].name
                => i = j

\* Two slots of different classes with the same range share one definition.
C3_Witness ==
    /\ pc = "rendered"
    /\ Cardinality({ n \in DOMAIN pyschema : pyschema[n].resolved = "AnnotatedAgent" }) = 3
    /\ Registry = << [name |-> "AnnotatedAgent",
                      discriminator_field |-> "schema_type",
                      members |-> <<"Person", "Organization", "Agent">>] >>

\* C4 (as stated): a multivalued slot whose range is a class with an
\* identifier slot and two descendant-inclusive types, not inlined and not
\* inlined as list, is wrapped as Dict[str, <union name>]; in general a
\* multivalued slot is wrapped as a str-keyed Dict when the class-range
\* branch determines a collection key (embedded class with an identifier
\* slot, not inlined as list) and as a List otherwise.
C4_MultivaluedIdentifiedIsDict ==
    \A n \in DOMAIN pyschema : LET a == pyschema[n] IN
        /\ ( /\ ClassRange(a.slot)
             /\ a.slot.multivalued
             /\ HasIdentifier(a.slot)
             /\ NumDescendants(a.slot) = 2
             /\ ~a.slot.inlined
             /\ ~a.slot.inlined_as_list ) =>
               a.wrapped = "Dict[str, " \o UnionNameOf(a.slot) \o "]"
        /\ (a.python_range # None /\ a.slot.multivalued) =>
               IF Embedded(a.slot) /\ HasIdentifier(a.slot) /\ ~a.slot.inlined_as_list
               THEN a.wrapped = "Dict[str, " \o a.resolved \o "]"
               ELSE a.wrapped = "List[" \o a.resolved \o "]"

\* C5: a slot whose normalized name is in the reference-slot set and whose
\* wrapped type is neither str nor List[str] is widened to
\* Union[<type>, List[str]] when multivalued and Union[<type>, str] when
\* not; every other slot is left unwidened.  The set holds the normalized
\* aliases that start with "has " or equal "main contact", the excluded
\* names apart.
C5_ReferenceSlotsWidened ==
    /\ \A g \in 1..Len(gens) :
        /\ "has_agent" \in gens[g].reference_slots
        /\ gens[g].reference_slots \subseteq {"has_agent", "has_study", "main_contact"}
        /\ \A c \in DOMAIN schema.classes : \A k \in DOMAIN schema.classes[c].slots :
            LET x == schema.classes[c].slots[k] IN
            /\ (x.name = "has study" \/ x.alias = "has study")
                   => "has_study" \in gens[g].reference_slots
            /\ x.name = "main contact" => "main_contact" \in gens[g].reference_slots
    /\ \A n \in DOMAIN pyschema : LET a == pyschema[n] IN
        a.python_range # None =>
            a.widened =
                IF /\ a.slot.name \in gens[cur].reference_slots
                   /\ a.wrapped \notin {"str", "List[str]"}
                THEN IF a.slot.multivalued
                     THEN "Union[" \o a.wrapped \o ", List[str]]"
                     ELSE "Union[" \o a.wrapped \o ", str]"
                ELSE a.wrapped

C5_Witness ==
    /\ \E n \in DOMAIN pyschema : LET a == pyschema[n] IN
        /\ a.slot.name = "has_study"
        /\ a.wrapped = "List[AnnotatedNamedThing]"
        /\ a.widened = "Union[List[AnnotatedNamedThing], List[str]]"
    /\ \E n \in DOMAIN pyschema : LET a == pyschema[n] IN
        /\ a.slot.name = "id"
        /\ a.widened = "str"

\* C6: a slot not named schema_type is annotated Optional[<widened type>]
\* exactly when it is not required; two slots that differ in the required
\* flag only get annotations that differ by that outermost wrapper only.
C6_OptionalIffNotRequired ==
    /\ \A n \in DOMAIN pyschema : LET a == pyschema[n] IN
        (a.python_range # None /\ a.slot.name # "schema_type") =>
            a.python_range =
                IF a.slot.required THEN a.widened
                ELSE "Optional[" \o a.widened \o "]"
    /\ \A n, m \in DOMAIN pyschema : LET a == pyschema[n] b == pyschema[m] IN
        ( /\ a.python_range # None
          /\ a.slot.name # "schema_type"
          /\ a.slot.required
          /\ b.slot = [a.slot EXCEPT !.required = FALSE] ) =>
            b.python_range = "Optional[" \o a.python_range \o "]"

C6_Witness ==
    \E n, m \in DOMAIN pyschema : LET a == pyschema[n] b == pyschema[m] IN
        /\ a.slot.required
        /\ b.slot = [a.slot EXCEPT !.required = FALSE]
        /\ a.python_range = "Union[List[AnnotatedNamedThing], List[str]]"
        /\ b.python_range = "Optional[Union[List[AnnotatedNamedThing], List[str]]]"

\* C7: every pass over the schema, on an instance that already ran one or
\* on a fresh instance, ends with the same attributes and type expressions,
\* the same error and the same registry (names, members, order); a later
\* pass on an instance leaves the registry as the earlier pass left it.
C7_Idempotent ==
    /\ \A i, j \in 1..Len(outcomes) :
        /\ outcomes[i].pyschema = outcomes[j].pyschema
        /\ outcomes[i].error = outcomes[j].error
        /\ outcomes[i].annotated_unions = outcomes[j].annotated_unions
    /\ \A i \in 1..Len(outcomes) :
        gens[outcomes[i].gen].annotated_unions = outcomes[i].annotated_unions

C7_Witness ==
    /\ Len(outcomes) = 2
    /\ outcomes[1].gen = outcomes[2].gen
    /\ outcomes[2].error = None
    /\ Len(outcomes[2].annotated_unions) = 2
    /\ \E n \in DOMAIN outcomes[2].pyschema : outcomes[2].pyschema[n].resolved = "AnnotatedNamedThing"

\* C8: resolving a slot whose range is an embedded class with no
\* descendant but itself yields that class's camel-cased name as the type
\* before wrapping and leaves the registry of every instance unchanged.
C8_SingleClassNoUnion ==
    [][ (AtSlot /\ Embedded(S) /\ NumDescendants(S) = 1) =>
            /\ gens' = gens
            /\ pyschema'[Len(pyschema')].slot = S
            /\ pyschema'[Len(pyschema')].resolved = camelcase(S.range)
            /\ pyschema'[Len(pyschema')].resolved \in {"Attribute", "Study"}
      ]_vars

C8_Witness ==
    /\ \E n \in DOMAIN pyschema : LET a == pyschema[n] IN
        /\ a.slot.range = "study"
        /\ a.slot.inlined
        /\ a.resolved = "Study"
        /\ a.python_range = "Optional[Union[List[Study], List[str]]]"
    /\ union_names(Registry) = {"AnnotatedAgent"}

\* C9: resolving a slot (not schema_type) whose range is a class with an
\* identifier slot, the slot not inlined, yields "str" before wrapping and
\* leaves the registry unchanged, however many descendants the class has;
\* a slot without range resolves to "str" as well.
C9_ReferenceAndAbsentAreStr ==
    [][ (AtSlot /\ (ByReference(S) \/ (S.name # "schema_type" /\ S.range = None))) =>
            /\ gens' = gens
            /\ pc' = "loop"
            /\ pyschema'[Len(pyschema')].slot = S
            /\ pyschema'[Len(pyschema')].resolved = "str"
      ]_vars

\* A by-reference slot whose range class has a descendant.
C9_Witness ==
    /\ pc = "rendered"
    /\ \E n \in DOMAIN pyschema : LET a == pyschema[n] IN
        /\ a.slot.range = "named thing"
        /\ a.slot.name = "has_study"
        /\ ~a.slot.inlined
        /\ a.slot.multivalued
        /\ a.resolved = "str"
        /\ a.python_range = "Optional[List[str]]"
    /\ union_names(Registry) = {"AnnotatedAgent"}

\* The state part of C10: in every instance, every union definition has at
\* least two members and the discriminator schema_type; every union name in
\* an annotated type expression of the running pass is a key of its
\* instance's registry.
C10_RegistryWellFormed ==
    /\ \A g \in 1..Len(gens) :
        \A i \in 1..Len(gens[g].annotated_unions) :
            /\ Len(gens[g].annotated_unions[i].members) >= 2
            /\ gens[g].annotated_unions[i].discriminator_field = "schema_type"
    /\ \A n \in DOMAIN pyschema : LET a == pyschema[n] IN
        (a.python_range # None /\ Contains(a.python_range, "Annotated")) =>
            \A c \in all_classes(schema) :
                Contains(a.python_range, "Annotated" \o camelcase(c)) =>
                    "Annotated" \o camelcase(c) \in union_names(Registry)

\* C10: the registry invariant holds in every state and every step leaves
\* the definitions already inserted, in every instance, as they were.
C10_RegistrySafe ==
    /\ []C10_RegistryWellFormed
    /\ [][ /\ Len(gens) <= Len(gens')
           /\ \A g \in 1..Len(gens) :
                IsPrefix(gens[g].annotated_unions, gens'[g].annotated_unions)
       ]_vars

\* A pass on an instance whose earlier pass was aborted by a raise.
C10_Witness ==
    /\ pc = "loop"
    /\ Len(outcomes) = 1
    /\ outcomes[1].error = "range: undefined thing"
    /\ outcomes[1].gen = cur
    /\ Len(pyschema) = 3
    /\ pyschema[3].python_range = "Optional[Union[List[AnnotatedAgent], List[str]]]"
    /\ union_names(Registry) = {"AnnotatedAgent"}

====
